---- MODULE Spec2Model ----
(***************************************************************************)
(* Model of flytekit/clients/auth/authenticator.py: the Authenticator base *)
(* class and its four flows (PKCE, external command, client credentials,   *)
(* device code), the process-wide keyring and the client config store.     *)
(*                                                                         *)
(* Python strings that the code transforms (tokens, command output) are    *)
(* sequences of one-character strings.  Header names are plain strings;    *)
(* the empty string "" stands for a falsy header name (None or "").        *)
(* A Python object is a record whose fields are the attributes that have   *)
(* been assigned so far; reading a missing attribute is an AttributeError. *)
(***************************************************************************)
EXTENDS Integers, Sequences, FiniteSets, TLC

\* ---------------------------------------------------------------- bounds
NThreads == 2

\* get_client_config invocations on one authenticator that are explored.
MaxCfgCalls == 3

Threads == 1 .. NThreads

\* The single caller of the sequential specification.
Callers == {1}

\* ------------------------------------------------------------ value sets
\* Python's None, where a Credentials / AuthorizationClient / tuple may stand.
None == [none |-> TRUE]

Credentials(access_token) == [access_token |-> access_token]

\* Access tokens the IdP may issue.
Tokens == {<<"a">>, <<"b">>}

\* Standard outputs the external command may produce on exit status 0.
Stdouts ==
    {<<"a">>, <<" ", "b", "\n">>, <<"\t", "a", " ", "b", "\r", "\n">>, <<"\n">>}

Endpoints == {"ep1", "ep2"}

\* header_key arguments a caller may pass ("" is None / not given).
CallerHeaderKeys == {"", "x-caller"}

\* header_key values the ClientConfig may carry ("" is None / empty).
ConfigHeaderKeys == {"", "flyte-authorization"}

\* Argument vectors for the command authenticator (<<>> is the empty list).
Commands == {<<>>, <<"get-token">>}

\* (client_id, client_secret) arguments; <<>> is None / "".
ClientIds == {<<>>, <<"a", "b", "c">>, <<"a", "b">>}

ClientSecrets == {<<>>, <<"x", "y", "z">>}

\* A Python list.
List(s) == [list |-> s]

\* scopes values the ClientConfig may carry: None (the default), the
\* empty list, or a list of scope names.
ConfigScopes == {None, List(<<>>), List(<<"all", "offline">>)}

\* The ClientConfigs explored: one with every field left at its default
\* and without header_key, and those that set header_key and scopes.
ClientConfigs ==
    { c \in [token_endpoint : {"https://idp/token"},
             header_key : ConfigHeaderKeys, scopes : ConfigScopes] :
        (c.header_key # "") <=> (c.scopes # None) }

Whitespace == {" ", "\n", "\t", "\r"}

VARIABLES
    keyring,    \* KeyringStore: endpoint -> Credentials or None
    cfg,        \* the ClientConfig the ClientConfigStore returns
    obj,        \* the authenticator object: its class and attributes
    pc,         \* per thread: position inside refresh_credentials
    storing,    \* per thread: the argument of its KeyringStore.store call
    log,        \* per thread: outbound calls made by its current/last call
    snap,       \* per thread: keyring and obj when its current call began
    last,       \* the operation that completed most recently, and whether
                \* a refresh_credentials call of this authenticator failed
    cfgCalls,   \* number of get_client_config invocations so far
    history     \* whether log and snap are kept (calls do not overlap)

vars == <<keyring, cfg, obj, pc, storing, log, snap, last, cfgCalls, history>>

\* ----------------------------------------------------------- pure helpers
Truthy(s) == s # ""

HasAttr(o, a) == a \in DOMAIN o

RECURSIVE lstrip(_)
lstrip(s) ==
    IF s # <<>> /\ Head(s) \in Whitespace THEN lstrip(Tail(s)) ELSE s

RECURSIVE rstrip(_)
rstrip(s) ==
    IF s # <<>> /\ s[Len(s)] \in Whitespace
    THEN rstrip(SubSeq(s, 1, Len(s) - 1))
    ELSE s

\* str.strip()
strip(s) == rstrip(lstrip(s))

\* f"Bearer {token}"
Bearer(token) == <<"B", "e", "a", "r", "e", "r", " ">> \o token

\* str.encode("utf-8") of the characters that occur in client ids and
\* secrets: one byte each.
Utf8 ==
    ("a" :> 97) @@ ("b" :> 98) @@ ("c" :> 99) @@ ("x" :> 120)
        @@ ("y" :> 121) @@ ("z" :> 122) @@ (":" :> 58)

encode(s) == [i \in 1 .. Len(s) |-> Utf8[s[i]]]

\* The base64 alphabet; the digit d is B64Alphabet[d + 1].
B64Alphabet ==
    <<"A", "B", "C", "D", "E", "F", "G", "H", "I", "J", "K", "L", "M",
      "N", "O", "P", "Q", "R", "S", "T", "U", "V", "W", "X", "Y", "Z",
      "a", "b", "c", "d", "e", "f", "g", "h", "i", "j", "k", "l", "m",
      "n", "o", "p", "q", "r", "s", "t", "u", "v", "w", "x", "y", "z",
      "0", "1", "2", "3", "4", "5", "6", "7", "8", "9", "+", "/">>

\* base64.b64encode(bytes).decode("utf-8"): three bytes become four
\* digits of six bits; a last group of one or two bytes is padded.
RECURSIVE b64encode(_)
b64encode(bytes) ==
    IF bytes = <<>> THEN <<>>
    ELSE IF Len(bytes) = 1 THEN
        LET n == bytes[1] * 65536
        IN  <<B64Alphabet[(n \div 262144) + 1],
              B64Alphabet[((n \div 4096) % 64) + 1], "=", "=">>
    ELSE IF Len(bytes) = 2 THEN
        LET n == bytes[1] * 65536 + bytes[2] * 256
        IN  <<B64Alphabet[(n \div 262144) + 1],
              B64Alphabet[((n \div 4096) % 64) + 1],
              B64Alphabet[((n \div 64) % 64) + 1], "=">>
    ELSE
        LET n == bytes[1] * 65536 + bytes[2] * 256 + bytes[3]
        IN  <<B64Alphabet[(n \div 262144) + 1],
              B64Alphabet[((n \div 4096) % 64) + 1],
              B64Alphabet[((n \div 64) % 64) + 1],
              B64Alphabet[(n % 64) + 1]>>
            \o b64encode(SubSeq(bytes, 4, Len(bytes)))

\* Variant of get_basic_authorization_header: the secret comes first.
get_basic_authorization_header_swapped(client_id, client_secret) ==
    <<"B", "a", "s", "i", "c", " ">>
        \o b64encode(encode(client_secret \o <<":">> \o client_id))

\* ClientCredentialsAuthenticator.get_basic_authorization_header
get_basic_authorization_header(client_id, client_secret) ==
    <<"B", "a", "s", "i", "c", " ">>
        \o b64encode(encode(client_id \o <<":">> \o client_secret))

\* sep.join(list)
RECURSIVE join(_, _)
join(sep, list) ==
    IF list = <<>> THEN <<>>
    ELSE IF Len(list) = 1 THEN <<list[1]>>
    ELSE <<list[1], sep>> \o join(sep, Tail(list))

\* The form body of get_token.
form_body(scopes) ==
    IF scopes # None
    THEN [grant_type |-> "client_credentials",
          scope |-> join(",", scopes.list)]
    ELSE [grant_type |-> "client_credentials"]

\* The request get_token hands to requests.post.
token_request(token_endpoint, authorization_header, scopes) ==
    [url     |-> token_endpoint,
     headers |-> [Authorization |-> authorization_header],
     data    |-> form_body(scopes)]

\* str() of an error with the message msg: the literal text and the
\* values formatted into it, in order. An error whose text is made
\* elsewhere (msg is None) has none here.
ErrorText(msg) ==
    IF msg = None THEN <<>>
    ELSE <<<<msg.text>>>>
         \o (IF "args" \in DOMAIN msg THEN <<msg.args>> ELSE <<>>)
         \o (IF "cmd" \in DOMAIN msg THEN <<msg.cmd>> ELSE <<>>)
         \o (IF "e" \in DOMAIN msg
             THEN <<<<msg.e.text>>, msg.e.cmd, <<ToString(msg.e.returncode)>>>>
             ELSE <<>>)

\* KeyringStore (flytekit/clients/auth/keyring.py)
KeyringStore_retrieve(k, endpoint) ==
    IF endpoint \in DOMAIN k THEN k[endpoint] ELSE None

KeyringStore_store(k, endpoint, credentials) ==
    [e \in DOMAIN k \cup {endpoint} |->
        IF e = endpoint THEN credentials ELSE k[e]]

KeyringStore_delete(k, endpoint) ==
    [e \in DOMAIN k |-> IF e = endpoint THEN None ELSE k[e]]

\* Authenticator.__init__
Authenticator_init(class, endpoint, header_key, credentials) ==
    [class      |-> class,
     endpoint   |-> endpoint,
     creds      |-> credentials,
     header_key |-> IF Truthy(header_key) THEN header_key ELSE "authorization"]

\* Authenticator.get_credentials: the value returned, or the error raised.
get_credentials_result(o) ==
    IF HasAttr(o, "creds")
    THEN [outcome |-> "return", err |-> "", result |-> o.creds]
    ELSE [outcome |-> "raise", err |-> "AttributeError", result |-> None]

\* Authenticator.fetch_grpc_call_auth_metadata
fetch_grpc_call_auth_metadata_result(o) ==
    IF ~HasAttr(o, "creds")
    THEN [outcome |-> "raise", err |-> "AttributeError", result |-> None]
    ELSE IF o.creds # None
    THEN [outcome |-> "return", err |-> "",
          result |-> [header_key   |-> o.header_key,
                      header_value |-> Bearer(o.creds.access_token)]]
    ELSE [outcome |-> "return", err |-> "", result |-> None]

\* --------------------------------------------------------- bookkeeping
Event(ev, arg) == [ev |-> ev, arg |-> arg]

\* What a thread outside refresh_credentials remembers of keyring and obj.
NoSnap == [keyring |-> <<>>, obj |-> <<>>]

\* An accessor or a constructor completed.
Done(op, outcome, err, result) ==
    /\ last' = [op |-> op, outcome |-> outcome, err |-> err,
                result |-> result, log |-> <<>>, snap |-> NoSnap,
                failed |-> last.failed]
    /\ UNCHANGED history

\* A constructor completed, having been called with the arguments args
\* and having made the outbound calls lg.
Constructed(outcome, err, args, lg) ==
    /\ last' = [op |-> "__init__", outcome |-> outcome, err |-> err,
                result |-> None,
                log |-> IF history THEN <<Event("__init__", args)>> \o lg
                                   ELSE <<>>,
                snap |-> NoSnap, failed |-> FALSE]
    /\ UNCHANGED history

\* The state a refresh_credentials call begins in; it is remembered
\* when calls do not overlap.
Snapshot == IF history THEN [keyring |-> keyring, obj |-> obj] ELSE NoSnap

\* The log lg extended by the outbound call ev.
Record(lg, ev) == IF history THEN Append(lg, ev) ELSE lg

\* A counter of invocations after one more invocation; like the log it
\* is kept for calls that do not overlap.
Counted(n) == IF history THEN n + 1 ELSE n

\* refresh_credentials of thread t begins.
Begin(t) ==
    /\ pc[t] = "idle"
    /\ snap' = [snap EXCEPT ![t] = Snapshot]

\* refresh_credentials of thread t completed, having made the outbound
\* calls lg since it began in the state sn.
Finish(t, outcome, err, lg, sn) ==
    /\ pc' = [pc EXCEPT ![t] = "idle"]
    /\ log' = [log EXCEPT ![t] = <<>>]
    /\ snap' = [snap EXCEPT ![t] = NoSnap]
    /\ last' = [op |-> "refresh_credentials", outcome |-> outcome,
                err |-> err, result |-> None, log |-> lg, snap |-> sn,
                failed |-> last.failed \/ outcome = "raise"]
    /\ UNCHANGED history

Unconstructed == [class |-> "none"]

InitWith(h) ==
    /\ history = h
    /\ keyring \in [Endpoints -> {None} \cup {Credentials(<<"a">>)}]
    /\ keyring["ep2"] = Credentials(<<"a">>)
    /\ cfg \in ClientConfigs
    /\ obj = Unconstructed
    /\ pc = [t \in Threads |-> "idle"]
    /\ storing = [t \in Threads |-> None]
    /\ log = [t \in Threads |-> <<>>]
    /\ snap = [t \in Threads |-> NoSnap]
    /\ last = [op |-> "none", outcome |-> "return", err |-> "",
               result |-> None, log |-> <<>>, snap |-> NoSnap,
               failed |-> FALSE]
    /\ cfgCalls = 0

Init == InitWith(TRUE)

InitConc == InitWith(FALSE) /\ cfg.scopes # List(<<>>)

\* ------------------------------------------------------- construction
\* The error of a ClientConfigStore whose get_client_config fails.
ConfigError == "Exception"

\* What get_client_config hands back: the config, or it raises.
ConfigResults == {cfg, [raise |-> ConfigError]}

\* Variant of PKCEAuthenticator_init: the keyring is not consulted.
PKCEAuthenticator_init_unhydrated(endpoint, header_key) ==
    /\ obj = Unconstructed
    /\ obj' = Authenticator_init("PKCEAuthenticator", endpoint, header_key,
                                 None)
              @@ [auth_client |-> None]
    /\ cfgCalls' = 0
    /\ Constructed("return", "",
                   [class |-> "PKCEAuthenticator", endpoint |-> endpoint,
                    header_key |-> header_key], <<>>)
    /\ UNCHANGED <<keyring, cfg, storing, pc, log, snap>>

\* The message of the AuthenticationError for an empty command.
EmptyCommandError ==
    [text |-> "Command cannot be empty for command authenticator"]

\* Variant of ClientArgsError: the message quotes the arguments.
ClientArgsError_quoting(client_id, client_secret) ==
    [text |-> "Client ID and Client SECRET both are required: {} {}",
     args |-> client_id \o client_secret]

\* The message of the ValueError for the arguments client_id and
\* client_secret.
ClientArgsError(client_id, client_secret) ==
    [text |-> "Client ID and Client SECRET both are required."]

\* PKCEAuthenticator.__init__
PKCEAuthenticator_init(endpoint, header_key) ==
    /\ obj = Unconstructed
    /\ obj' = Authenticator_init("PKCEAuthenticator", endpoint, header_key,
                                 KeyringStore_retrieve(keyring, endpoint))
              @@ [auth_client |-> None]
    /\ cfgCalls' = 0
    /\ Constructed("return", "",
                   [class |-> "PKCEAuthenticator", endpoint |-> endpoint,
                    header_key |-> header_key],
                   <<Event("KeyringStore.retrieve", endpoint)>>)
    /\ UNCHANGED <<keyring, cfg, storing, pc, log, snap>>

\* Variant of CommandAuthenticator_init: the command is not validated.
CommandAuthenticator_init_unchecked(command, header_key) ==
    /\ obj = Unconstructed
    /\ obj' = Authenticator_init("CommandAuthenticator", "", header_key, None)
              @@ [cmd |-> command]
    /\ cfgCalls' = 0
    /\ Constructed("return", "",
                   [class |-> "CommandAuthenticator", command |-> command,
                    header_key |-> header_key], <<>>)
    /\ UNCHANGED <<keyring, cfg, storing, pc, log, snap>>

\* CommandAuthenticator.__init__
CommandAuthenticator_init(command, header_key) ==
    /\ obj = Unconstructed
    /\ cfgCalls' = 0
    /\ LET args == [class |-> "CommandAuthenticator", command |-> command,
                    header_key |-> header_key]
       IN  IF command = <<>>
           THEN /\ Constructed("raise", "AuthenticationError", args,
                               <<Event("AuthenticationError",
                                       EmptyCommandError)>>)
                /\ UNCHANGED obj
           ELSE /\ obj' = Authenticator_init("CommandAuthenticator", "",
                                             header_key, None)
                          @@ [cmd |-> command]
                /\ Constructed("return", "", args, <<>>)
    /\ UNCHANGED <<keyring, cfg, storing, pc, log, snap>>

\* The object ClientCredentialsAuthenticator.__init__ leaves behind when
\* get_client_config returned c.
ClientCredentialsAuthenticator_new(endpoint, client_id, client_secret, header_key, c) ==
    Authenticator_init("ClientCredentialsAuthenticator", endpoint,
                       IF Truthy(c.header_key) THEN c.header_key
                                               ELSE header_key,
                       None)
    @@ [token_endpoint |-> c.token_endpoint,
        scopes         |-> c.scopes,
        client_id      |-> client_id,
        client_secret  |-> client_secret]

\* Variant of ClientCredentialsAuthenticator_init: the config is resolved
\* before client_id and client_secret are validated.
ClientCredentialsAuthenticator_init_resolving(endpoint, client_id, client_secret, header_key, c) ==
    /\ obj = Unconstructed
    /\ cfgCalls' = 1
    /\ LET args == [class |-> "ClientCredentialsAuthenticator",
                    endpoint |-> endpoint, client_id |-> client_id,
                    client_secret |-> client_secret,
                    header_key |-> header_key]
           lg   == <<Event("get_client_config", None)>>
       IN  IF c \notin ClientConfigs
           THEN /\ Constructed("raise", c.raise, args,
                               lg \o <<Event(c.raise, None)>>)
                /\ UNCHANGED obj
           ELSE IF client_id = <<>> \/ client_secret = <<>>
           THEN /\ Constructed("raise", "ValueError", args,
                               lg \o <<Event("ValueError",
                                   ClientArgsError(client_id, client_secret))>>)
                /\ UNCHANGED obj
           ELSE /\ obj' = ClientCredentialsAuthenticator_new(
                              endpoint, client_id, client_secret,
                              header_key, c)
                /\ Constructed("return", "", args, lg)
    /\ UNCHANGED <<keyring, cfg, storing, pc, log, snap>>

\* ClientCredentialsAuthenticator.__init__; c is what get_client_config
\* hands back if it is reached.
ClientCredentialsAuthenticator_init(endpoint, client_id, client_secret, header_key, c) ==
    /\ obj = Unconstructed
    /\ LET args == [class |-> "ClientCredentialsAuthenticator",
                    endpoint |-> endpoint, client_id |-> client_id,
                    client_secret |-> client_secret,
                    header_key |-> header_key]
           lg   == <<Event("get_client_config", None)>>
       IN  IF client_id = <<>> \/ client_secret = <<>>
           THEN /\ Constructed("raise", "ValueError", args,
                               <<Event("ValueError",
                                   ClientArgsError(client_id, client_secret))>>)
                /\ cfgCalls' = 0
                /\ UNCHANGED obj
           ELSE IF c \notin ClientConfigs
           THEN /\ Constructed("raise", c.raise, args,
                               lg \o <<Event(c.raise, None)>>)
                /\ cfgCalls' = 1
                /\ UNCHANGED obj
           ELSE /\ cfgCalls' = 1
                /\ obj' = ClientCredentialsAuthenticator_new(
                              endpoint, client_id, client_secret,
                              header_key, c)
                /\ Constructed("return", "", args, lg)
    /\ UNCHANGED <<keyring, cfg, storing, pc, log, snap>>

\* DeviceCodeAuthenticator.__init__: the body is `pass`, so the base
\* initialiser never runs and no attribute is assigned.
DeviceCodeAuthenticator_init(endpoint, header_key) ==
    /\ obj = Unconstructed
    /\ obj' = [class |-> "DeviceCodeAuthenticator"]
    /\ cfgCalls' = 0
    /\ Constructed("return", "",
                   [class |-> "DeviceCodeAuthenticator",
                    endpoint |-> endpoint, header_key |-> header_key], <<>>)
    /\ UNCHANGED <<keyring, cfg, storing, pc, log, snap>>

\* ---------------------------------------------------------- accessors
\* Authenticator.get_credentials
get_credentials(t) ==
    /\ pc[t] = "idle"
    /\ obj # Unconstructed
    /\ LET r == get_credentials_result(obj)
       IN  Done("get_credentials", r.outcome, r.err, r.result)
    /\ UNCHANGED <<keyring, cfg, storing, obj, pc, log, snap, cfgCalls>>

\* Variant of fetch_grpc_call_auth_metadata: without a cached credential
\* it first looks the endpoint up in the keyring and caches what it finds.
fetch_grpc_call_auth_metadata_hydrating(t) ==
    /\ pc[t] = "idle"
    /\ obj # Unconstructed
    /\ LET o == IF HasAttr(obj, "creds") /\ obj.creds = None
                THEN [obj EXCEPT !.creds =
                         KeyringStore_retrieve(keyring, obj.endpoint)]
                ELSE obj
           r == fetch_grpc_call_auth_metadata_result(o)
       IN  /\ obj' = o
           /\ IF r.result = None
              THEN /\ Done("fetch_grpc_call_auth_metadata",
                           r.outcome, r.err, r.result)
                   /\ UNCHANGED pc
              ELSE /\ pc' = [pc EXCEPT ![t] = "L69"]
                   /\ UNCHANGED <<last, history>>
    /\ UNCHANGED <<keyring, cfg, storing, log, snap, cfgCalls>>

\* Authenticator.fetch_grpc_call_auth_metadata, line 68: `if self._creds:`;
\* without credentials None is returned (line 70).
fetch_grpc_call_auth_metadata(t) ==
    /\ pc[t] = "idle"
    /\ obj # Unconstructed
    /\ LET r == fetch_grpc_call_auth_metadata_result(obj)
       IN  IF r.result = None
           THEN /\ Done("fetch_grpc_call_auth_metadata",
                        r.outcome, r.err, r.result)
                /\ UNCHANGED pc
           ELSE /\ pc' = [pc EXCEPT ![t] = "L69"]
                /\ UNCHANGED <<last, history>>
    /\ UNCHANGED <<keyring, cfg, storing, obj, log, snap, cfgCalls>>

\* line 69: self._header_key and self._creds are read again for the pair;
\* when another thread has bound self._creds to None since line 68 the
\* attribute access on None fails.
fetch_grpc_call_auth_metadata_L69(t) ==
    /\ pc[t] = "L69"
    /\ pc' = [pc EXCEPT ![t] = "idle"]
    /\ LET r == IF obj.creds = None
                THEN [outcome |-> "raise", err |-> "AttributeError",
                      result |-> None]
                ELSE fetch_grpc_call_auth_metadata_result(obj)
       IN  Done("fetch_grpc_call_auth_metadata", r.outcome, r.err, r.result)
    /\ UNCHANGED <<keyring, cfg, storing, obj, log, snap, cfgCalls>>

\* ------------------------------------------- CommandAuthenticator flow
\* CommandAuthenticator.refresh_credentials: subprocess.run is started.
Command_refresh_credentials(t) ==
    /\ obj.class = "CommandAuthenticator"
    /\ Begin(t)
    /\ pc' = [pc EXCEPT ![t] = "subprocess.run"]
    /\ log' = [log EXCEPT ![t] = Record(<<>>, Event("subprocess.run", None))]
    /\ UNCHANGED <<keyring, cfg, storing, obj, last, cfgCalls, history>>

\* What the command may write to standard error before it exits with a
\* non-zero status.
Stderrs == {<<>>, <<"token expired">>}

\* Errors subprocess.run(..., check=True) may raise: the command exited
\* with a non-zero status (the error holds what the command wrote), or
\* it could not be started.
SubprocessErrors ==
    {[kind |-> "CalledProcessError", returncode |-> 1, stderr |-> s] :
        s \in Stderrs}
        \cup {[kind |-> "FileNotFoundError"]}

\* str(e) of a CalledProcessError e for the command cmd:
\* "Command '<cmd>' returned non-zero exit status <returncode>."
CalledProcessError_str(e, cmd) ==
    [text |-> "Command '{}' returned non-zero exit status {}.",
     cmd |-> cmd, returncode |-> e.returncode]

\* The error that leaves refresh_credentials when subprocess.run raised e
\* and its message: only CalledProcessError is caught and raised again as
\* AuthenticationError.
Command_except(e, cmd) ==
    IF e.kind = "CalledProcessError"
    THEN [err |-> "AuthenticationError",
          msg |-> [text |-> "Problems refreshing token with command: {}",
                   e |-> CalledProcessError_str(e, cmd)]]
    ELSE [err |-> e.kind,
          msg |-> [text |-> "[Errno 2] No such file or directory: {}",
                   cmd  |-> <<cmd[1]>>]]

\* Variant of subprocess_run_returns: stdout is cached as it was written.
subprocess_run_returns_untrimmed(t, stdout) ==
    /\ pc[t] = "subprocess.run"
    /\ obj' = [obj EXCEPT !.creds = Credentials(stdout)]
    /\ Finish(t, "return", "",
              Record(log[t], Event("CompletedProcess",
                                   [returncode |-> 0, stdout |-> stdout])),
              snap[t])
    /\ UNCHANGED <<keyring, cfg, storing, cfgCalls>>

\* The command exited with status 0 and wrote stdout.
subprocess_run_returns(t, stdout) ==
    /\ pc[t] = "subprocess.run"
    /\ obj' = [obj EXCEPT !.creds = Credentials(strip(stdout))]
    /\ Finish(t, "return", "",
              Record(log[t], Event("CompletedProcess",
                                   [returncode |-> 0, stdout |-> stdout])),
              snap[t])
    /\ UNCHANGED <<keyring, cfg, storing, cfgCalls>>

\* subprocess.run raised e.
subprocess_run_raises(t, e) ==
    /\ pc[t] = "subprocess.run"
    /\ LET x  == Command_except(e, obj.cmd)
           lg == Record(log[t], Event(e.kind, e))
       IN  Finish(t, "raise", x.err,
                  IF x.err = e.kind
                  THEN Record(log[t], Event(e.kind, x.msg))
                  ELSE Record(lg, Event(x.err, x.msg)),
                  snap[t])
    /\ UNCHANGED <<keyring, cfg, storing, obj, cfgCalls>>

\* The command does not exit: subprocess.run is called without a timeout
\* and keeps waiting for it.
subprocess_run_blocks(t) ==
    /\ pc[t] = "subprocess.run"
    /\ pc' = [pc EXCEPT ![t] = "subprocess.wait"]
    /\ UNCHANGED <<keyring, cfg, storing, obj, log, snap, last, cfgCalls, history>>

\* ---------------------------------------------- PKCEAuthenticator flow
\* AuthorizationClient(endpoint=..., token_endpoint=..., ...)
AuthorizationClient(endpoint, c) ==
    [endpoint |-> endpoint, token_endpoint |-> c.token_endpoint]

\* Results refresh_access_token may hand back: a new Credentials, or a
\* falsy value (the caller tests the result before storing it).
RefreshResults == {Credentials(tok) : tok \in Tokens} \cup {None}

\* Errors refresh_access_token may raise.
RefreshErrors == {"AccessTokenNotFoundError", "AuthenticationError"}

\* Variant of PKCE_refresh_credentials: get_client_config is invoked by
\* every call, whether or not the client exists.
PKCE_refresh_credentials_unmemoized(t) ==
    /\ obj.class = "PKCEAuthenticator"
    /\ cfgCalls < MaxCfgCalls
    /\ Begin(t)
    /\ pc' = [pc EXCEPT ![t] = "get_client_config"]
    /\ log' = [log EXCEPT ![t] = Record(<<>>, Event("get_client_config", None))]
    /\ cfgCalls' = Counted(cfgCalls)
    /\ UNCHANGED <<keyring, cfg, storing, obj, last, history>>

\* PKCEAuthenticator.refresh_credentials, entry and the test of
\* _initialize_auth_client: an unset client starts get_client_config.
PKCE_refresh_credentials(t) ==
    /\ obj.class = "PKCEAuthenticator"
    /\ obj.auth_client = None => cfgCalls < MaxCfgCalls
    /\ Begin(t)
    /\ IF obj.auth_client = None
       THEN /\ pc' = [pc EXCEPT ![t] = "get_client_config"]
            /\ log' = [log EXCEPT ![t] = Record(<<>>, Event("get_client_config", None))]
            /\ cfgCalls' = Counted(cfgCalls)
       ELSE /\ pc' = [pc EXCEPT ![t] = "L114"]
            /\ log' = [log EXCEPT ![t] = <<>>]
            /\ UNCHANGED cfgCalls
    /\ UNCHANGED <<keyring, cfg, storing, obj, last, history>>

\* get_client_config raised: the error leaves refresh_credentials and
\* the client stays unset.
get_client_config_raises(t) ==
    /\ pc[t] = "get_client_config"
    /\ Finish(t, "raise", ConfigError,
              Record(log[t], Event(ConfigError, None)), snap[t])
    /\ UNCHANGED <<keyring, cfg, storing, obj, cfgCalls>>

\* Variant of initialize_auth_client: the header key of the config is
\* not taken over.
initialize_auth_client_keeps_header(t) ==
    /\ pc[t] = "get_client_config"
    /\ obj' = [obj EXCEPT !.auth_client = AuthorizationClient(obj.endpoint, cfg)]
    /\ pc' = [pc EXCEPT ![t] = "L114"]
    /\ UNCHANGED <<keyring, cfg, storing, log, snap, last, cfgCalls, history>>

\* _initialize_auth_client, after get_client_config returned: the header
\* key is taken from the config and the client is created.
initialize_auth_client(t) ==
    /\ pc[t] = "get_client_config"
    /\ obj' = [obj EXCEPT !.header_key = cfg.header_key,
                          !.auth_client = AuthorizationClient(obj.endpoint, cfg)]
    /\ pc' = [pc EXCEPT ![t] = "L114"]
    /\ UNCHANGED <<keyring, cfg, storing, log, snap, last, cfgCalls, history>>

\* `if self._creds:` - with credentials the token refresh is sent,
\* without them control goes to the full grant.
PKCE_L114(t) ==
    /\ pc[t] = "L114"
    /\ IF obj.creds # None
       THEN /\ pc' = [pc EXCEPT ![t] = "refresh_access_token"]
            /\ log' = [log EXCEPT ![t] =
                          Record(@, Event("refresh_access_token", obj.creds))]
       ELSE /\ pc' = [pc EXCEPT ![t] = "L125"]
            /\ UNCHANGED log
    /\ UNCHANGED <<keyring, cfg, storing, obj, snap, last, cfgCalls, history>>

\* self._creds = self._auth_client.refresh_access_token(self._creds)
refresh_access_token_returns(t, r) ==
    /\ pc[t] = "refresh_access_token"
    /\ obj' = [obj EXCEPT !.creds = r]
    /\ pc' = [pc EXCEPT ![t] = "L118"]
    /\ log' = [log EXCEPT ![t] =
                  Record(@, Event("refresh_access_token.return", r))]
    /\ UNCHANGED <<keyring, cfg, storing, snap, last, cfgCalls, history>>

\* Variant of HandlerOf: no error is caught.
HandlerOf_uncaught(e) == "propagate"

\* What refresh_credentials does with an error e of refresh_access_token:
\* AccessTokenNotFoundError is caught, any other error propagates.
HandlerOf(e) ==
    IF e = "AccessTokenNotFoundError" THEN "L123" ELSE "propagate"

\* Variant of refresh_access_token_raises: an error that propagates also
\* purges the keyring entry of the endpoint.
refresh_access_token_raises_purging(t, e) ==
    /\ pc[t] = "refresh_access_token"
    /\ IF HandlerOf(e) = "L123"
       THEN /\ pc' = [pc EXCEPT ![t] = "L123"]
            /\ log' = [log EXCEPT ![t] = Record(@, Event(e, None))]
            /\ UNCHANGED <<keyring, snap, last, history>>
       ELSE /\ keyring' = KeyringStore_delete(keyring, obj.endpoint)
            /\ Finish(t, "raise", e, Record(log[t], Event(e, None)), snap[t])
    /\ UNCHANGED <<cfg, storing, obj, cfgCalls>>

\* refresh_access_token raised e.
refresh_access_token_raises(t, e) ==
    /\ pc[t] = "refresh_access_token"
    /\ IF HandlerOf(e) = "L123"
       THEN /\ pc' = [pc EXCEPT ![t] = "L123"]
            /\ log' = [log EXCEPT ![t] = Record(@, Event(e, None))]
            /\ UNCHANGED <<snap, last, history>>
       ELSE Finish(t, "raise", e, Record(log[t], Event(e, None)), snap[t])
    /\ UNCHANGED <<keyring, cfg, storing, obj, cfgCalls>>

\* Variant of PKCE_L118: the refreshed credentials are not stored and
\* the call goes on to the full grant.
PKCE_L118_falling_through(t) ==
    /\ pc[t] = "L118"
    /\ IF obj.creds # None
       THEN /\ pc' = [pc EXCEPT ![t] = "L125"]
            /\ UNCHANGED <<log, snap, last, history>>
       ELSE Finish(t, "return", "", log[t], snap[t])
    /\ UNCHANGED <<keyring, cfg, storing, obj, cfgCalls>>

\* `if self._creds:` - without credentials the call returns (line 120)
PKCE_L118(t) ==
    /\ pc[t] = "L118"
    /\ IF obj.creds # None
       THEN /\ pc' = [pc EXCEPT ![t] = "L119"]
            /\ UNCHANGED <<log, snap, last, history>>
       ELSE Finish(t, "return", "", log[t], snap[t])
    /\ UNCHANGED <<keyring, cfg, storing, obj, cfgCalls>>

\* KeyringStore.store(self._creds): self._creds is read again for the
\* argument, then the call is made.
PKCE_L119(t) ==
    /\ pc[t] = "L119"
    /\ storing' = [storing EXCEPT ![t] = obj.creds]
    /\ pc' = [pc EXCEPT ![t] = "KeyringStore.store"]
    /\ UNCHANGED <<keyring, cfg, obj, log, snap, last, cfgCalls, history>>

\* Variant of PKCE_L123: the purge also unbinds the authenticator from
\* its endpoint.
PKCE_L123_unbinding(t) ==
    /\ pc[t] = "L123"
    /\ keyring' = KeyringStore_delete(keyring, obj.endpoint)
    /\ obj' = [obj EXCEPT !.endpoint = ""]
    /\ log' = [log EXCEPT ![t] = Record(@, Event("KeyringStore.delete", None))]
    /\ pc' = [pc EXCEPT ![t] = "L125"]
    /\ UNCHANGED <<cfg, storing, snap, last, cfgCalls, history>>

\* except AccessTokenNotFoundError: KeyringStore.delete(self._endpoint)
PKCE_L123(t) ==
    /\ pc[t] = "L123"
    /\ keyring' = KeyringStore_delete(keyring, obj.endpoint)
    /\ log' = [log EXCEPT ![t] = Record(@, Event("KeyringStore.delete", None))]
    /\ pc' = [pc EXCEPT ![t] = "L125"]
    /\ UNCHANGED <<cfg, storing, obj, snap, last, cfgCalls, history>>

\* self._auth_client.get_creds_from_remote() is started
PKCE_L125(t) ==
    /\ pc[t] = "L125"
    /\ pc' = [pc EXCEPT ![t] = "get_creds_from_remote"]
    /\ log' = [log EXCEPT ![t] = Record(@, Event("get_creds_from_remote", None))]
    /\ UNCHANGED <<keyring, cfg, storing, obj, snap, last, cfgCalls, history>>

\* self._creds = <the credentials of the completed grant>
get_creds_from_remote_returns(t, c) ==
    /\ pc[t] = "get_creds_from_remote"
    /\ obj' = [obj EXCEPT !.creds = c]
    /\ pc' = [pc EXCEPT ![t] = "L126"]
    /\ log' = [log EXCEPT ![t] =
                  Record(@, Event("get_creds_from_remote.return", c))]
    /\ UNCHANGED <<keyring, cfg, storing, snap, last, cfgCalls, history>>

\* Variant of get_creds_from_remote_raises: a failed grant puts the
\* default header key back.
get_creds_from_remote_raises_resetting(t) ==
    /\ pc[t] = "get_creds_from_remote"
    /\ obj' = [obj EXCEPT !.header_key = "authorization"]
    /\ Finish(t, "raise", "AuthenticationError",
              Record(log[t], Event("AuthenticationError", None)), snap[t])
    /\ UNCHANGED <<keyring, cfg, storing, cfgCalls>>

\* the grant failed; the error leaves refresh_credentials
get_creds_from_remote_raises(t) ==
    /\ pc[t] = "get_creds_from_remote"
    /\ Finish(t, "raise", "AuthenticationError",
              Record(log[t], Event("AuthenticationError", None)), snap[t])
    /\ UNCHANGED <<keyring, cfg, storing, obj, cfgCalls>>

\* Variant of PKCE_L126: the credentials of the grant are not persisted.
PKCE_L126_unsaved(t) ==
    /\ pc[t] = "L126"
    /\ Finish(t, "return", "", log[t], snap[t])
    /\ UNCHANGED <<keyring, cfg, storing, obj, cfgCalls>>

\* KeyringStore.store(self._creds): self._creds is read for the argument
\* (another thread may have rebound it since line 125), then the call is
\* made.
PKCE_L126(t) ==
    /\ pc[t] = "L126"
    /\ storing' = [storing EXCEPT ![t] = obj.creds]
    /\ pc' = [pc EXCEPT ![t] = "KeyringStore.store"]
    /\ UNCHANGED <<keyring, cfg, obj, log, snap, last, cfgCalls, history>>

\* The store call of line 119 or 126 writes its argument under the
\* endpoint and refresh_credentials returns; storing None fails on the
\* attribute access.
KeyringStore_store_returns(t) ==
    /\ pc[t] = "KeyringStore.store"
    /\ storing' = [storing EXCEPT ![t] = None]
    /\ IF storing[t] # None
       THEN /\ keyring' =
                  KeyringStore_store(keyring, obj.endpoint, storing[t])
            /\ Finish(t, "return", "",
                      Record(log[t], Event("KeyringStore.store", storing[t])),
                      snap[t])
       ELSE /\ UNCHANGED keyring
            /\ Finish(t, "raise", "AttributeError", log[t], snap[t])
    /\ UNCHANGED <<cfg, obj, cfgCalls>>

\* The error of a store write that fails.
StoreError == "KeyringError"

\* The store call of line 119 or 126 raised, after the refreshed (line
\* 117) or granted (line 125) credentials were bound to self._creds; no
\* handler encloses either call, the error leaves refresh_credentials.
KeyringStore_store_raises(t) ==
    /\ pc[t] = "KeyringStore.store"
    /\ storing[t] # None
    /\ storing' = [storing EXCEPT ![t] = None]
    /\ Finish(t, "raise", StoreError,
              Record(log[t], Event(StoreError, None)), snap[t])
    /\ UNCHANGED <<keyring, cfg, obj, cfgCalls>>

\* ---------------------------------- ClientCredentialsAuthenticator flow
\* HTTP status codes the token endpoint may answer with.
StatusCodes == {200, 401}

\* ClientCredentialsAuthenticator.refresh_credentials up to the POST of
\* get_token.
Client_refresh_credentials(t) ==
    /\ obj.class = "ClientCredentialsAuthenticator"
    /\ Begin(t)
    /\ pc' = [pc EXCEPT ![t] = "requests.post"]
    /\ log' = [log EXCEPT ![t] =
                  Record(<<>>, Event("requests.post",
                      token_request(
                          obj.token_endpoint,
                          get_basic_authorization_header(
                              obj.client_id, obj.client_secret),
                          obj.scopes)))]
    /\ UNCHANGED <<keyring, cfg, storing, obj, last, cfgCalls, history>>

\* A response body that is not JSON.
NotJson == [not_json |-> TRUE]

\* Response bodies of the token endpoint: a token response, a JSON
\* document without the token fields, or no JSON at all.
Bodies ==
    {[access_token |-> tok, expires_in |-> 3600] : tok \in Tokens}
        \cup {[error |-> "invalid_client"], NotJson}

Responses == {[status_code |-> sc, json |-> b] : sc \in StatusCodes, b \in Bodies}

\* ClientCredentialsAuthenticator.get_token from the response on: the
\* access token returned, or the error raised with its message; logged
\* is what get_token hands to logging.error, if anything.
get_token(response) ==
    IF response.status_code # 200
    THEN [outcome |-> "raise", err |-> "AuthenticationError",
          msg     |-> [text |-> "Non-200 received from IDP"],
          logged  |-> <<[text |-> "Non-200 ({}) received from IDP: {}",
                         status_code |-> response.status_code,
                         body |-> response.json]>>,
          token   |-> <<>>]
    ELSE IF response.json = NotJson
    THEN [outcome |-> "raise", err |-> "JSONDecodeError",
          msg |-> [text |-> "Expecting value: line 1 column 1 (char 0)"],
          logged |-> <<>>, token |-> <<>>]
    ELSE IF ~({"access_token", "expires_in"} \subseteq DOMAIN response.json)
    THEN [outcome |-> "raise", err |-> "KeyError",
          msg |-> [text |-> "'access_token'"],
          logged |-> <<>>, token |-> <<>>]
    ELSE [outcome |-> "return", err |-> "", msg |-> None, logged |-> <<>>,
          token |-> response.json.access_token]

\* Variant of requests_post_returns: a failed token request also drops
\* the cached credential.
requests_post_returns_clearing(t, response) ==
    /\ pc[t] = "requests.post"
    /\ LET r  == get_token(response)
           lg == IF r.logged = <<>>
                 THEN Record(log[t], Event("response", response))
                 ELSE Record(Record(log[t], Event("response", response)),
                             Event("logging.error", r.logged[1]))
       IN  IF r.outcome = "raise"
           THEN /\ obj' = [obj EXCEPT !.creds = None]
                /\ Finish(t, "raise", r.err, Record(lg, Event(r.err, r.msg)),
                          snap[t])
           ELSE /\ obj' = [obj EXCEPT !.creds = Credentials(r.token)]
                /\ Finish(t, "return", "", lg, snap[t])
    /\ UNCHANGED <<keyring, cfg, storing, cfgCalls>>

\* get_token after the response arrived, and the assignment of line 236.
requests_post_returns(t, response) ==
    /\ pc[t] = "requests.post"
    /\ LET r  == get_token(response)
           lg == IF r.logged = <<>>
                 THEN Record(log[t], Event("response", response))
                 ELSE Record(Record(log[t], Event("response", response)),
                             Event("logging.error", r.logged[1]))
       IN  IF r.outcome = "raise"
           THEN /\ Finish(t, "raise", r.err, Record(lg, Event(r.err, r.msg)),
                          snap[t])
                /\ UNCHANGED obj
           ELSE /\ obj' = [obj EXCEPT !.creds = Credentials(r.token)]
                /\ Finish(t, "return", "", lg, snap[t])
    /\ UNCHANGED <<keyring, cfg, storing, cfgCalls>>

\* Variant of requests_post_raises: an unreachable token endpoint also
\* purges the keyring entry of the endpoint.
requests_post_raises_purging(t) ==
    /\ pc[t] = "requests.post"
    /\ keyring' = KeyringStore_delete(keyring, obj.endpoint)
    /\ Finish(t, "raise", "ConnectionError",
              Record(log[t], Event("ConnectionError", None)), snap[t])
    /\ UNCHANGED <<cfg, storing, obj, cfgCalls>>

\* requests.post raised: the token endpoint could not be reached.
requests_post_raises(t) ==
    /\ pc[t] = "requests.post"
    /\ Finish(t, "raise", "ConnectionError",
              Record(log[t], Event("ConnectionError", None)), snap[t])
    /\ UNCHANGED <<keyring, cfg, storing, obj, cfgCalls>>

\* ----------------------------------------- DeviceCodeAuthenticator flow
\* DeviceCodeAuthenticator.refresh_credentials: the body is `pass`.
Device_refresh_credentials(t) ==
    /\ obj.class = "DeviceCodeAuthenticator"
    /\ pc[t] = "idle"
    /\ Finish(t, "return", "", <<>>, Snapshot)
    /\ UNCHANGED <<keyring, cfg, storing, obj, cfgCalls>>

Construct ==
    \/ \E e \in Endpoints, h \in CallerHeaderKeys :
          PKCEAuthenticator_init(e, h)
    \/ \E c \in Commands, h \in CallerHeaderKeys :
          CommandAuthenticator_init(c, h)
    \/ \E e \in Endpoints, i \in ClientIds, s \in ClientSecrets,
          h \in CallerHeaderKeys, c \in ConfigResults :
          ClientCredentialsAuthenticator_init(e, i, s, h, c)
    \/ \E e \in Endpoints, h \in CallerHeaderKeys :
          DeviceCodeAuthenticator_init(e, h)

Step(t) ==
    \/ get_credentials(t)
    \/ fetch_grpc_call_auth_metadata(t)
    \/ fetch_grpc_call_auth_metadata_L69(t)
    \/ Command_refresh_credentials(t)
    \/ \E s \in Stdouts : subprocess_run_returns(t, s)
    \/ \E e \in SubprocessErrors : subprocess_run_raises(t, e)
    \/ subprocess_run_blocks(t)
    \/ PKCE_refresh_credentials(t)
    \/ initialize_auth_client(t)
    \/ get_client_config_raises(t)
    \/ PKCE_L114(t)
    \/ \E r \in RefreshResults : refresh_access_token_returns(t, r)
    \/ \E e \in RefreshErrors : refresh_access_token_raises(t, e)
    \/ PKCE_L118(t)
    \/ PKCE_L119(t)
    \/ PKCE_L123(t)
    \/ PKCE_L125(t)
    \/ \E tok \in Tokens : get_creds_from_remote_returns(t, Credentials(tok))
    \/ get_creds_from_remote_raises(t)
    \/ PKCE_L126(t)
    \/ KeyringStore_store_returns(t)
    \/ KeyringStore_store_raises(t)
    \/ Client_refresh_credentials(t)
    \/ \E r \in Responses : requests_post_returns(t, r)
    \/ requests_post_raises(t)
    \/ Device_refresh_credentials(t)

\* One caller at a time: every call runs to completion before the next.
Next == Construct \/ \E t \in Callers : Step(t)

Spec == Init /\ [][Next]_vars

\* The authenticators whose calls are interleaved: the interactive one
\* is built for one endpoint with the caller's header key.
ConstructConc ==
    \/ PKCEAuthenticator_init("ep1", "x-caller")
    \/ \E c \in Commands, h \in CallerHeaderKeys :
          CommandAuthenticator_init(c, h)
    \/ \E e \in Endpoints, i \in ClientIds, s \in ClientSecrets,
          h \in CallerHeaderKeys, c \in ConfigResults :
          ClientCredentialsAuthenticator_init(e, i, s, h, c)
    \/ \E e \in Endpoints, h \in CallerHeaderKeys :
          DeviceCodeAuthenticator_init(e, h)

\* Several callers share the authenticator; their calls interleave.
NextConc == ConstructConc \/ \E t \in Threads : Step(t)

SpecConc == InitConc /\ [][NextConc]_vars

\* ------------------------------------------------------------ properties
\* No refresh_credentials call is in progress.
Idle == \A t \in Threads : pc[t] = "idle"

\* A refresh_credentials call has just completed (nothing has run since).
Refreshed == Idle /\ last.op = "refresh_credentials"

\* The authenticator holds a Credentials object.
Cached(o) == HasAttr(o, "creds") /\ o.creds # None

\* The outbound call ev occurs in the log lg.
Logged(lg, ev) == \E i \in 1 .. Len(lg) : lg[i].ev = ev

\* C1: after a refresh_credentials call that returned without raising,
\* get_credentials() returns a Credentials object, for every flow.
C1_RefreshLeavesCredential ==
    (Refreshed /\ last.outcome = "return") =>
        /\ get_credentials_result(obj).outcome = "return"
        /\ get_credentials_result(obj).result # None

\* C2 as stated: for every flow, the credential get_credentials() returns
\* right after a successful refresh_credentials is the keyring entry of
\* the authenticator's endpoint.
C2_AllFlowsCachedEqualsStored ==
    (Refreshed /\ last.outcome = "return"
        /\ get_credentials_result(obj).outcome = "return") =>
        get_credentials_result(obj).result =
            KeyringStore_retrieve(keyring, obj.endpoint)

\* C2 amended: in the PKCE flow, a credential that get_credentials()
\* returns right after a successful refresh_credentials is the keyring
\* entry of the authenticator's endpoint.
C2_PKCECachedEqualsStored ==
    (Refreshed /\ last.outcome = "return"
        /\ obj.class = "PKCEAuthenticator" /\ Cached(obj)) =>
        get_credentials_result(obj).result =
            KeyringStore_retrieve(keyring, obj.endpoint)

\* A successful PKCE refresh replaced the keyring entry of the endpoint
\* by the newly cached credential.
C2_Witness ==
    /\ Refreshed /\ last.outcome = "return"
    /\ obj.class = "PKCEAuthenticator" /\ Cached(obj)
    /\ last.snap.keyring[obj.endpoint] # obj.creds
    /\ keyring[obj.endpoint] = obj.creds

\* The outbound flow executions of refresh_credentials.
FlowExecutions ==
    {"subprocess.run", "requests.post", "refresh_access_token",
     "get_creds_from_remote"}

\* C3: callers that invoke refresh_credentials concurrently never have
\* two flow executions under way; a caller arriving during a refresh does
\* not start a second one.
C3_SingleFlight ==
    Cardinality({t \in Threads : pc[t] \in FlowExecutions}) <= 1

\* C4: in every state of every authenticator fetch_auth_metadata returns
\* None exactly when no credential is cached, and otherwise the pair
\* (header_key, "Bearer " + access token).
C4_FetchAuthMetadata ==
    obj # Unconstructed =>
        LET r == fetch_grpc_call_auth_metadata_result(obj) IN
        /\ r.outcome = "return"
        /\ (r.result = None) <=> ~Cached(obj)
        /\ Cached(obj) =>
              /\ r.result.header_key = obj.header_key
              /\ r.result.header_value =
                    <<"B", "e", "a", "r", "e", "r", " ">>
                        \o obj.creds.access_token

\* The flows that take their header key from the ClientConfig.
ConfiguredFlows == {"PKCEAuthenticator", "ClientCredentialsAuthenticator"}

\* C5 as stated: in the PKCE and client-credentials flows, whenever
\* fetch_auth_metadata returns a pair and the ClientConfig carries a
\* header_key, the pair's header name is that header_key, also before
\* the first refresh_credentials.
C5_ConfigHeaderKeyAlways ==
    (obj.class \in ConfiguredFlows /\ Cached(obj) /\ Truthy(cfg.header_key)) =>
        fetch_grpc_call_auth_metadata_result(obj).result.header_key
            = cfg.header_key

\* C5 amended: the same for the client-credentials flow, and for the PKCE
\* flow once a refresh_credentials call has resolved the ClientConfig.
C5_ConfigHeaderKeyOnceResolved ==
    (/\ Cached(obj) /\ Truthy(cfg.header_key)
     /\ \/ obj.class = "ClientCredentialsAuthenticator"
        \/ obj.class = "PKCEAuthenticator" /\ obj.auth_client # None) =>
        fetch_grpc_call_auth_metadata_result(obj).result.header_key
            = cfg.header_key

\* A PKCE authenticator built with the caller's header key answers with
\* the config's header key after its first refresh_credentials.
C5_Witness ==
    /\ Refreshed /\ obj.class = "PKCEAuthenticator" /\ Cached(obj)
    /\ last.snap.obj.header_key = "x-caller"
    /\ last.snap.obj.auth_client = None
    /\ fetch_grpc_call_auth_metadata_result(obj).result.header_key
          = "flyte-authorization"

ReadOnlyOps == {"get_credentials", "fetch_grpc_call_auth_metadata"}

\* C6: get_credentials and fetch_auth_metadata change nothing - not the
\* cached credential, header_key, endpoint, client configuration, keyring
\* or any call in progress - and they can always run, also while other
\* threads are inside refresh_credentials.
C6_AccessorsReadOnly ==
    /\ [][(\/ (last' # last /\ last'.op \in ReadOnlyOps)
            \/ \E t \in Threads :
                  pc[t] # pc'[t] /\ "L69" \in {pc[t], pc'[t]}) =>
             UNCHANGED <<keyring, cfg, storing, obj, log, snap, cfgCalls>>]_vars
    /\ [](\A t \in Threads :
             /\ (obj # Unconstructed /\ pc[t] = "idle") =>
                   /\ ENABLED get_credentials(t)
                   /\ ENABLED fetch_grpc_call_auth_metadata(t)
             /\ pc[t] = "L69" => ENABLED fetch_grpc_call_auth_metadata_L69(t))

\* fetch_auth_metadata returned a pair while another thread's flow
\* execution was under way.
C6_Witness ==
    /\ last.op = "fetch_grpc_call_auth_metadata"
    /\ last.outcome = "return" /\ last.result # None
    /\ \E t \in Threads : pc[t] \in FlowExecutions

\* C7: a refresh_credentials call that began with a cached credential
\* and ends without one has failed after purging the keyring entry; a
\* successful refresh_credentials never clears the cached credential.
C7_ClearedOnlyByPurgingFailure ==
    (Refreshed /\ Cached(last.snap.obj) /\ ~Cached(obj)) =>
        /\ last.outcome = "raise"
        /\ Logged(last.log, "KeyringStore.delete")

\* C8: in the PKCE flow, when the token refresh of a cached credential
\* fails with AccessTokenNotFoundError, the keyring entry of the endpoint
\* is deleted, then the full grant is attempted in the same call (the
\* entry is gone while the grant runs), and the call does not raise
\* AccessTokenNotFoundError.
C8_TokenNotFoundPurgesThenGrants ==
    /\ \A t \in Threads :
          (pc[t] = "get_creds_from_remote"
              /\ Logged(log[t], "AccessTokenNotFoundError")) =>
              KeyringStore_retrieve(keyring, obj.endpoint) = None
    /\ Refreshed =>
          /\ last.err # "AccessTokenNotFoundError"
          /\ \A i \in 1 .. Len(last.log) :
                last.log[i].ev = "AccessTokenNotFoundError" =>
                    /\ i > 1 /\ last.log[i - 1].ev = "refresh_access_token"
                    /\ last.log[i - 1].arg = last.snap.obj.creds
                    /\ i + 2 <= Len(last.log)
                    /\ last.log[i + 1].ev = "KeyringStore.delete"
                    /\ last.log[i + 2].ev = "get_creds_from_remote"

\* A call whose token refresh was answered with AccessTokenNotFoundError
\* purged an existing keyring entry and completed the full grant.
C8_Witness ==
    /\ Refreshed /\ last.outcome = "return"
    /\ Logged(last.log, "AccessTokenNotFoundError")
    /\ Logged(last.log, "get_creds_from_remote")
    /\ last.snap.keyring[obj.endpoint] # None
    /\ keyring[obj.endpoint] = obj.creds

C10_PurgeDropsCachedCredential ==
    (/\ Refreshed /\ obj.class = "PKCEAuthenticator"
     /\ last.outcome = "raise"
     /\ Logged(last.log, "KeyringStore.delete")) =>
        /\ ~Cached(obj)
        /\ KeyringStore_retrieve(keyring, obj.endpoint) = None

\* C11: whatever makes refresh_credentials fail, in any flow, reaches the
\* caller as an AuthenticationError.
C11_FailuresAreAuthenticationErrors ==
    (Refreshed /\ last.outcome = "raise") => last.err = "AuthenticationError"

\* C12: in the client-credentials flow a response of the token endpoint
\* with a status other than 200 makes refresh_credentials raise
\* AuthenticationError and leaves the cached credential as it was; the
\* cached credential is replaced only on a 200 response, by one wrapping
\* the access_token of that response.
C12_ClientNon200KeepsCredential ==
    (Refreshed /\ obj.class = "ClientCredentialsAuthenticator") =>
        LET lg == last.log
            Answers == {i \in 1 .. Len(lg) : lg[i].ev = "response"}
        IN  /\ \A i \in Answers :
                  lg[i].arg.status_code # 200 =>
                      /\ last.outcome = "raise"
                      /\ last.err = "AuthenticationError"
                      /\ obj.creds = last.snap.obj.creds
            /\ (last.outcome = "return" \/ obj.creds # last.snap.obj.creds) =>
                  \E i \in Answers :
                      /\ lg[i].arg.status_code = 200
                      /\ "access_token" \in DOMAIN lg[i].arg.json
                      /\ obj.creds = [access_token |-> lg[i].arg.json.access_token]

\* A client-credentials authenticator that had cached a credential was
\* answered 401 and still holds that credential.
C12_Witness ==
    /\ Refreshed /\ obj.class = "ClientCredentialsAuthenticator"
    /\ \E i \in 1 .. Len(last.log) :
          /\ last.log[i].ev = "response"
          /\ last.log[i].arg.status_code = 401
    /\ last.outcome = "raise"
    /\ last.snap.obj.creds # None
    /\ obj.creds = last.snap.obj.creds

\* The arguments of the constructor call that completed most recently.
InitArgs == last.log[1].arg

\* A constructor call has just completed.
JustConstructed == last.op = "__init__" /\ last.log # <<>>

\* C13: constructing a client-credentials authenticator with an empty
\* client id or client secret raises, without get_client_config having
\* been invoked and without a token request; no authenticator results.
C13_ClientArgsValidatedFirst ==
    (/\ JustConstructed
     /\ InitArgs.class = "ClientCredentialsAuthenticator"
     /\ (InitArgs.client_id = <<>> \/ InitArgs.client_secret = <<>>)) =>
        /\ last.outcome = "raise"
        /\ ~Logged(last.log, "get_client_config")
        /\ ~Logged(last.log, "requests.post")
        /\ cfgCalls = 0
        /\ obj = Unconstructed

\* The constructor was given a client id and an empty secret and raised.
C13_Witness ==
    /\ JustConstructed
    /\ InitArgs.class = "ClientCredentialsAuthenticator"
    /\ InitArgs.client_id # <<>> /\ InitArgs.client_secret = <<>>
    /\ last.outcome = "raise" /\ last.err = "ValueError"
    /\ obj = Unconstructed

\* C14: constructing a command authenticator with an empty command
\* raises and leaves no authenticator, so that no refresh_credentials
\* ever runs an empty command.
C14_EmptyCommandRejected ==
    /\ (JustConstructed /\ InitArgs.class = "CommandAuthenticator"
            /\ InitArgs.command = <<>>) =>
          (last.outcome = "raise" /\ obj = Unconstructed)
    /\ obj.class = "CommandAuthenticator" => obj.cmd # <<>>
    /\ \A t \in Threads :
          pc[t] = "subprocess.run" =>
              (obj.class = "CommandAuthenticator" /\ obj.cmd # <<>>)

\* The constructor was given the empty command and raised.
C14_Witness ==
    /\ JustConstructed /\ InitArgs.class = "CommandAuthenticator"
    /\ InitArgs.command = <<>>
    /\ last.outcome = "raise" /\ last.err = "AuthenticationError"
    /\ obj = Unconstructed

\* tok is out without its leading and trailing whitespace.
IsTrimOf(tok, out) ==
    \E i, j \in 0 .. Len(out) :
        /\ i + j <= Len(out)
        /\ tok = SubSeq(out, i + 1, Len(out) - j)
        /\ \A k \in 1 .. i : out[k] \in Whitespace
        /\ \A k \in (Len(out) - j + 1) .. Len(out) : out[k] \in Whitespace
        /\ tok # <<>> =>
              (tok[1] \notin Whitespace /\ tok[Len(tok)] \notin Whitespace)

\* C15: in the command flow the cached credential becomes the standard
\* output of the command without its surrounding whitespace exactly when
\* the command exited with status zero; on a non-zero exit status
\* refresh_credentials raises AuthenticationError and the cached
\* credential stays as it was.
C15_CommandExitStatus ==
    (Refreshed /\ obj.class = "CommandAuthenticator") =>
        LET lg == last.log IN
        /\ \A i \in 1 .. Len(lg) :
              lg[i].ev = "CompletedProcess" =>
                  /\ lg[i].arg.returncode = 0
                  /\ last.outcome = "return"
                  /\ obj.creds # None
                  /\ IsTrimOf(obj.creds.access_token, lg[i].arg.stdout)
        /\ Logged(lg, "CalledProcessError") =>
              /\ last.outcome = "raise"
              /\ last.err = "AuthenticationError"
              /\ obj.creds = last.snap.obj.creds
        /\ (last.outcome = "return" \/ obj.creds # last.snap.obj.creds) =>
              Logged(lg, "CompletedProcess")

\* The command wrote a token between whitespace and exited with status
\* zero; run again it exited with a non-zero status, and the trimmed
\* token is still cached.
C15_Witness ==
    /\ Refreshed /\ obj.class = "CommandAuthenticator"
    /\ Logged(last.log, "CalledProcessError")
    /\ last.outcome = "raise"
    /\ last.snap.obj.creds = [access_token |-> <<"a", " ", "b">>]
    /\ obj.creds = last.snap.obj.creds

\* C16: the wait for the external command is bounded: a
\* refresh_credentials call of the command flow that is under way can
\* always still move on to its return or its error, also when the
\* command never exits.
C16_CommandWaitBounded ==
    \A t \in Callers :
        (obj.class = "CommandAuthenticator" /\ pc[t] # "idle") =>
            ENABLED Step(t)

\* A device-flow refresh_credentials call has just completed.
DeviceRefreshed == Refreshed /\ obj.class = "DeviceCodeAuthenticator"

\* The answers of the token endpoint that end the polling of the device
\* flow, and the one that continues it.
TerminalAnswers == {"token", "access_denied", "expired_token"}

PendingAnswer == "authorization_pending"

\* C17: a device-flow refresh_credentials call polls the token endpoint
\* until a terminal answer: every answer before its last is
\* authorization_pending, its last answer is terminal, access_denied makes
\* the call raise, an issued token makes it return, and nothing is sent
\* after the terminal answer.
C17_DevicePollingEndsOnTerminalAnswer ==
    DeviceRefreshed =>
        LET lg == last.log
            n  == Len(lg)
        IN  /\ n > 0
            /\ lg[n].ev \in TerminalAnswers
            /\ \A i \in 1 .. n - 1 : lg[i].ev = PendingAnswer
            /\ lg[n].ev = "access_denied" =>
                  (last.outcome = "raise" /\ last.err = "AuthenticationError")
            /\ lg[n].ev = "token" => last.outcome = "return"

\* C18: a device-flow refresh_credentials call that was never issued a
\* token - every poll was answered authorization_pending until the
\* device code expired - ends by raising the expiry error; it does not
\* return successfully without a token.
C18_DeviceNoSuccessWithoutToken ==
    (DeviceRefreshed /\ ~Logged(last.log, "token")) =>
        (last.outcome = "raise" /\ last.err = "AuthenticationError")

\* C19: after a device-flow refresh_credentials call that returned
\* successfully the authenticator caches a credential, and the keyring
\* entry of its endpoint is that credential.
C19_DeviceTokenCachedAndStored ==
    (DeviceRefreshed /\ last.outcome = "return") =>
        /\ Cached(obj)
        /\ HasAttr(obj, "endpoint")
        /\ KeyringStore_retrieve(keyring, obj.endpoint) = obj.creds

\* The authenticator has obtained its ClientConfig.
Resolved ==
    \/ obj.class = "ClientCredentialsAuthenticator"
    \/ obj.class = "PKCEAuthenticator" /\ obj.auth_client # None

\* C20 as stated: whatever refresh_credentials calls are made on an
\* authenticator, one after the other, get_client_config is invoked at
\* most once for it.
C20_ConfigInvokedAtMostOnce == cfgCalls <= 1

\* C20 amended: once get_client_config has handed its config to an
\* authenticator - at construction in the client-credentials flow, in
\* the first refresh_credentials that gets it in the PKCE flow - no
\* later call invokes get_client_config again, whether it succeeds or
\* fails; the PKCE constructor does not invoke it.
C20_ConfigNotInvokedOnceResolved ==
    /\ [][Resolved => cfgCalls' = cfgCalls]_vars
    /\ [](\A t \in Callers : pc[t] = "get_client_config" => ~Resolved)
    /\ []((JustConstructed /\ Idle /\ obj.class = "PKCEAuthenticator") =>
             cfgCalls = 0)

\* get_client_config failed in the first refresh_credentials, returned
\* the config in the second, and a third call - which failed - did not
\* invoke it.
C20_Witness ==
    /\ Refreshed /\ obj.class = "PKCEAuthenticator"
    /\ last.snap.obj.auth_client # None
    /\ last.outcome = "raise"
    /\ cfgCalls = 2

\* The threads whose refresh_credentials call is inside the lazy
\* resolution of _initialize_auth_client.
Resolving == {t \in Threads : pc[t] = "get_client_config"}

\* C21: when several callers make the first refresh_credentials call of
\* a PKCE authenticator concurrently, the lazy resolution happens once:
\* no two callers are inside get_client_config, and none is inside it
\* when the authorization client already exists (it would create a
\* second one).
C21_ConcurrentLazyInitOnce ==
    /\ Cardinality(Resolving) <= 1
    /\ Resolving # {} => obj.auth_client = None

\* The flows that do not use the keyring.
StorelessFlows == {"CommandAuthenticator", "ClientCredentialsAuthenticator"}

StoreCalls ==
    {"KeyringStore.retrieve", "KeyringStore.store", "KeyringStore.delete"}

\* C22: in the command flow and the client-credentials flow neither the
\* constructor nor any refresh_credentials call, successful or failing,
\* reads, writes or deletes a keyring entry.
C22_StorelessFlowsLeaveKeyring ==
    /\ [][obj'.class \in StorelessFlows => keyring' = keyring]_vars
    /\ [][(/\ last' # last /\ last'.op = "__init__" /\ last'.log # <<>>
           /\ last'.log[1].arg.class \in StorelessFlows) =>
             keyring' = keyring]_vars
    /\ []((\/ JustConstructed /\ InitArgs.class \in StorelessFlows
           \/ Refreshed /\ obj.class \in StorelessFlows) =>
             \A i \in 1 .. Len(last.log) : last.log[i].ev \notin StoreCalls)

\* A client-credentials refresh_credentials call cached a credential
\* and the keyring has no entry for the endpoint.
C22_Witness ==
    /\ Refreshed /\ obj.class = "ClientCredentialsAuthenticator"
    /\ last.outcome = "return" /\ Cached(obj)
    /\ keyring[obj.endpoint] = None
    /\ keyring = last.snap.keyring

\* C23: once an authenticator is constructed, no refresh_credentials,
\* get_credentials or fetch_grpc_call_auth_metadata call, successful or
\* failing, changes its class (the flow) or its endpoint.
C23_EndpointAndFlowFixed ==
    [][obj # Unconstructed =>
          /\ obj'.class = obj.class
          /\ HasAttr(obj, "endpoint") =>
                (HasAttr(obj', "endpoint") /\ obj'.endpoint = obj.endpoint)]_vars

\* A PKCE authenticator bound to ep2 went through a refresh_credentials
\* call that purged the keyring entry and failed, and is still bound to
\* ep2.
C23_Witness ==
    /\ Refreshed /\ last.outcome = "raise"
    /\ Logged(last.log, "KeyringStore.delete")
    /\ last.snap.obj.class = "PKCEAuthenticator"
    /\ last.snap.obj.endpoint = "ep2"
    /\ obj.class = "PKCEAuthenticator" /\ obj.endpoint = "ep2"

\* The value of the base64 digit ch; the padding sign counts as zero.
B64Value(ch) ==
    IF ch = "=" THEN 0 ELSE CHOOSE d \in 0 .. 63 : B64Alphabet[d + 1] = ch

\* The bytes that the base64 text chars stands for.
RECURSIVE b64decode(_)
b64decode(chars) ==
    IF Len(chars) < 4 THEN <<>>
    ELSE LET n == B64Value(chars[1]) * 262144 + B64Value(chars[2]) * 4096
                    + B64Value(chars[3]) * 64 + B64Value(chars[4])
             group == <<n \div 65536, (n \div 256) % 256, n % 256>>
             pad == Cardinality({i \in 3 .. 4 : chars[i] = "="})
         IN  SubSeq(group, 1, 3 - pad)
                 \o b64decode(SubSeq(chars, 5, Len(chars)))

\* "Basic " followed by base64("abc:xyz")
BasicAbcXyz ==
    <<"B", "a", "s", "i", "c", " ",
      "Y", "W", "J", "j", "O", "n", "h", "5", "e", "g", "=", "=">>

\* C24: the header built for client id c and secret s is "Basic "
\* followed by the base64 text of "c:s" - for "abc" and "xyz" it is
\* "Basic YWJjOnh5eg==" - and it is the Authorization header of the POST
\* that refresh_credentials sends.
C24_BasicAuthorizationHeader ==
    /\ get_basic_authorization_header(<<"a", "b", "c">>, <<"x", "y", "z">>)
          = BasicAbcXyz
    /\ \A t \in Callers :
          pc[t] = "requests.post" =>
              LET h == log[t][1].arg.headers.Authorization IN
              /\ log[t][1].ev = "requests.post"
              /\ SubSeq(h, 1, 6) = <<"B", "a", "s", "i", "c", " ">>
              /\ Len(h) % 4 = 2
              /\ b64decode(SubSeq(h, 7, Len(h)))
                    = [i \in 1 .. Len(obj.client_id) + 1 + Len(obj.client_secret) |->
                          Utf8[(obj.client_id \o <<":">> \o obj.client_secret)[i]]]

\* The POST of an authenticator with client id "abc" and secret "xyz" is
\* under way with the header "Basic YWJjOnh5eg==".
C24_Witness ==
    /\ pc[1] = "requests.post"
    /\ obj.client_id = <<"a", "b", "c">> /\ obj.client_secret = <<"x", "y", "z">>
    /\ log[1][1].arg.headers.Authorization = BasicAbcXyz

\* How often the outbound call ev occurs in the log lg.
Count(lg, ev) == Cardinality({i \in 1 .. Len(lg) : lg[i].ev = ev})

\* A PKCE refresh_credentials call has just completed and had its
\* authorization client (get_client_config did not fail in it).
PKCERefreshed ==
    /\ Refreshed /\ obj.class = "PKCEAuthenticator"
    /\ ~Logged(last.log, ConfigError)

\* C25: a PKCE refresh_credentials call that begins with a cached
\* credential and whose token refresh returns a credential stores that
\* credential in the keyring and returns without starting the full
\* grant; a call that begins without a cached credential sends no token
\* refresh and runs the full grant exactly once (the credential is not in
\* the keyring when the store write itself raises).
C25_RefreshOrFullGrant ==
    PKCERefreshed =>
        /\ Logged(last.log, "refresh_access_token") <=> Cached(last.snap.obj)
        /\ \A i \in 1 .. Len(last.log) :
              (/\ last.log[i].ev = "refresh_access_token.return"
               /\ last.log[i].arg # None) =>
                  /\ ~Logged(last.log, "get_creds_from_remote")
                  /\ obj.creds = last.log[i].arg
                  /\ \/ last.err = StoreError
                     \/ /\ last.outcome = "return"
                        /\ KeyringStore_retrieve(keyring, obj.endpoint)
                              = last.log[i].arg
        /\ ~Cached(last.snap.obj) =>
              Count(last.log, "get_creds_from_remote") = 1

\* The token refresh of the cached credential "a" returned the
\* credential "b", which is now the keyring entry; no full grant ran.
C25_Witness ==
    /\ PKCERefreshed /\ last.outcome = "return"
    /\ last.snap.obj.creds = [access_token |-> <<"a">>]
    /\ Logged(last.log, "refresh_access_token.return")
    /\ ~Logged(last.log, "get_creds_from_remote")
    /\ obj.creds = [access_token |-> <<"b">>]
    /\ keyring[obj.endpoint] = [access_token |-> <<"b">>]

\* The constructor of a PKCE authenticator has completed and nothing has
\* been called on the authenticator since.
PKCEConstructed ==
    JustConstructed /\ Idle /\ InitArgs.class = "PKCEAuthenticator"

\* C26: constructing a PKCE authenticator succeeds, reads the keyring
\* entry of its endpoint and caches it - None when there is no entry -,
\* changes no keyring entry and does not invoke get_client_config.
C26_PKCEConstructionHydrates ==
    /\ [](PKCEConstructed =>
            /\ last.outcome = "return"
            /\ obj.class = "PKCEAuthenticator"
            /\ obj.endpoint = InitArgs.endpoint
            /\ obj.creds = KeyringStore_retrieve(keyring, InitArgs.endpoint)
            /\ last.log = <<Event("__init__", InitArgs),
                            Event("KeyringStore.retrieve", InitArgs.endpoint)>>
            /\ obj.auth_client = None
            /\ cfgCalls = 0)
    /\ [][(obj = Unconstructed /\ obj'.class = "PKCEAuthenticator") =>
             (keyring' = keyring /\ cfgCalls' = 0)]_vars

\* A PKCE authenticator was constructed for an endpoint without keyring
\* entry and has no cached credential.
C26_Witness ==
    /\ PKCEConstructed /\ last.outcome = "return"
    /\ keyring[InitArgs.endpoint] = None
    /\ obj.creds = None

\* C27: from the moment a refresh_credentials call of a PKCE
\* authenticator has resolved the ClientConfig, the authenticator's
\* header_key is the header_key of the ClientConfig, whatever header_key
\* the caller gave the constructor and whether that call or a later one
\* fails.
C27_PKCEHeaderKeyFromConfig ==
    (obj.class = "PKCEAuthenticator" /\ obj.auth_client # None) =>
        obj.header_key = cfg.header_key

\* After the ClientConfig was resolved a later refresh_credentials call
\* failed; the header_key is still the one of the ClientConfig.
C27_Witness ==
    /\ Refreshed /\ obj.class = "PKCEAuthenticator"
    /\ last.outcome = "raise"
    /\ last.snap.obj.auth_client # None
    /\ cfg.header_key = "flyte-authorization"
    /\ obj.header_key = "flyte-authorization"

\* text is the elements of list, in their order, with a comma between
\* each two.
IsCommaJoined(text, list) ==
    /\ Len(text) = 2 * Len(list) - 1
    /\ \A i \in 1 .. Len(list) : text[2 * i - 1] = list[i]
    /\ \A i \in 1 .. Len(list) - 1 : text[2 * i] = ","

\* The ClientConfig carries scopes: its scopes are neither absent nor
\* empty.
ScopesPresent == cfg.scopes # None /\ cfg.scopes.list # <<>>

\* C28: the form body POSTed by a client-credentials refresh_credentials
\* call has grant_type=client_credentials; it has a scope field exactly
\* when the ClientConfig carries scopes, whose value is those scopes in
\* their order joined by commas; without scopes no scope field is sent.
C28_FormBodyScope ==
    \A t \in Callers :
        pc[t] = "requests.post" =>
            LET data == log[t][1].arg.data IN
            /\ data.grant_type = "client_credentials"
            /\ ("scope" \in DOMAIN data) <=> ScopesPresent
            /\ ScopesPresent => IsCommaJoined(data.scope, cfg.scopes.list)

\* C29: the AuthenticationError that a client-credentials
\* refresh_credentials call raises for a response with a status other
\* than 200 carries the body and the status of that response.
C29_Non200ErrorCarriesBody ==
    (Refreshed /\ obj.class = "ClientCredentialsAuthenticator") =>
        \A i \in 1 .. Len(last.log) :
            (last.log[i].ev = "response"
                /\ last.log[i].arg.status_code # 200) =>
                \E j \in i + 1 .. Len(last.log) :
                    /\ last.log[j].ev = "AuthenticationError"
                    /\ LET msg == last.log[j].arg IN
                       /\ {"body", "status_code"} \subseteq DOMAIN msg
                       /\ msg.body = last.log[i].arg.json
                       /\ msg.status_code = last.log[i].arg.status_code

\* C30: the AuthenticationError that a command-flow refresh_credentials
\* call raises when the command exited with a non-zero status carries
\* what the command wrote to standard error.
C30_CommandErrorCarriesOutput ==
    (Refreshed /\ obj.class = "CommandAuthenticator") =>
        \A i \in 1 .. Len(last.log) :
            (last.log[i].ev = "CalledProcessError"
                /\ last.log[i].arg.stderr # <<>>) =>
                \E j \in i + 1 .. Len(last.log) :
                    /\ last.log[j].ev = "AuthenticationError"
                    /\ LET msg == last.log[j].arg IN
                       \/ "stderr" \in DOMAIN msg
                             /\ msg.stderr = last.log[i].arg.stderr
                       \/ "stderr" \in DOMAIN msg.e
                             /\ msg.e.stderr = last.log[i].arg.stderr

\* The text s occurs in the text part.
Contains(part, s) ==
    \E i \in 0 .. Len(part) - Len(s) : SubSeq(part, i + 1, i + Len(s)) = s

\* The text of the error that the operation completed last raised.
RaisedText ==
    IF /\ last.outcome = "raise" /\ last.log # <<>>
       /\ last.log[Len(last.log)].ev = last.err
    THEN ErrorText(last.log[Len(last.log)].arg)
    ELSE <<>>

\* The secrets the operation completed last had to do with: the client
\* secret, the access token cached before it and the one cached now.
SecretMaterial ==
    (IF last.op = "__init__"
     THEN (IF "client_secret" \in DOMAIN InitArgs
           THEN {InitArgs.client_secret} ELSE {})
     ELSE (IF HasAttr(obj, "client_secret") THEN {obj.client_secret} ELSE {})
          \cup (IF Cached(last.snap.obj)
                THEN {last.snap.obj.creds.access_token} ELSE {}))
    \cup (IF Cached(obj) THEN {obj.creds.access_token} ELSE {})

\* C31: the text of an error raised by a constructor or by
\* refresh_credentials contains neither the client secret nor an access
\* token the authenticator holds or held.
C31_NoSecretInErrorText ==
    ((JustConstructed /\ Idle) \/ Refreshed) =>
        \A s \in SecretMaterial \ {<<>>} :
            \A i \in 1 .. Len(RaisedText) : ~Contains(RaisedText[i], s)

\* A client-credentials authenticator with a secret and a cached token
\* was refused by the IdP and raised an error with a text.
C31_Witness ==
    /\ Refreshed /\ obj.class = "ClientCredentialsAuthenticator"
    /\ last.err = "AuthenticationError"
    /\ obj.client_secret = <<"x", "y", "z">>
    /\ Cached(last.snap.obj)
    /\ RaisedText # <<>>

\* C32: a refresh_credentials call that raises leaves get_credentials()
\* returning what it returned before the call; in particular a store write
\* that fails after a token refresh or a full grant does not leave the new
\* credentials cached.
C32_RaiseKeepsCredentials ==
    (Refreshed /\ last.outcome = "raise") =>
        get_credentials_result(obj) = get_credentials_result(last.snap.obj)

\* C33: between the operations of a PKCE authenticator, cached
\* credentials are the credentials the keyring holds under the endpoint.
C33_CachedIsStored ==
    (Idle /\ obj.class = "PKCEAuthenticator" /\ Cached(obj)) =>
        obj.creds = KeyringStore_retrieve(keyring, obj.endpoint)

\* C34: the header_key of every authenticator is a non-empty string in
\* every reachable state, and fetch_grpc_call_auth_metadata never returns
\* a pair whose header name is empty.
C34_HeaderKeyNonEmpty ==
    /\ HasAttr(obj, "header_key") => obj.header_key # ""
    /\ (/\ last.op = "fetch_grpc_call_auth_metadata"
        /\ last.outcome = "return" /\ last.result # None) =>
           last.result.header_key # ""

\* The credentials the event e of a flow execution delivers, None when it
\* delivers none.
ProducedBy(e) ==
    IF e.ev \in {"refresh_access_token.return", "get_creds_from_remote.return"}
    THEN e.arg
    ELSE IF e.ev = "CompletedProcess"
    THEN Credentials(strip(e.arg.stdout))
    ELSE IF e.ev = "response" /\ get_token(e.arg).outcome = "return"
    THEN Credentials(get_token(e.arg).token)
    ELSE None

\* The credentials delivered last in the log lg, None when none were.
LatestProduced(lg) ==
    LET is == {i \in 1 .. Len(lg) : ProducedBy(lg[i]) # None}
    IN  IF is = {} THEN None
        ELSE ProducedBy(lg[CHOOSE i \in is : \A j \in is : j <= i])

\* C35: calls that do not overlap: a refresh_credentials call that
\* returns leaves cached the credentials its flow execution delivered,
\* and a call that raises leaves cached what was cached before it; so the
\* cached credentials are those of the most recent successful execution.
C35_LatestSuccessSupersedes ==
    Refreshed =>
        IF last.outcome = "return"
        THEN Cached(obj) /\ obj.creds = LatestProduced(last.log)
        ELSE get_credentials_result(obj)
                = get_credentials_result(last.snap.obj)

\* C36: concurrent refresh_credentials calls on one PKCE authenticator:
\* once all have returned, none of them having raised, the cached
\* credentials are the keyring entry of the endpoint.
C36_ConcurrentSuccessesAgree ==
    (/\ Refreshed /\ obj.class = "PKCEAuthenticator"
     /\ ~last.failed /\ Cached(obj)) =>
        obj.creds = KeyringStore_retrieve(keyring, obj.endpoint)

\* C37: a fetch_grpc_call_auth_metadata call that overlaps
\* refresh_credentials calls on an authenticator with a credentials
\* attribute returns None or a pair whose token is the one cached at the
\* moment of its return; it never fails and never carries a token that
\* was not cached.
C37_ConcurrentFetchReturnsCached ==
    [][(/\ last' # last /\ last'.op = "fetch_grpc_call_auth_metadata"
        /\ HasAttr(obj, "creds")) =>
           /\ last'.outcome = "return"
           /\ \/ last'.result = None /\ obj.creds = None
              \/ /\ last'.result # None /\ Cached(obj)
                 /\ last'.result.header_value = Bearer(obj.creds.access_token)]_vars

====
